---------------------------- MODULE Spec2Model ----------------------------
(***************************************************************************)
(* A model of jax/experimental/sparse/coo.py: the COO matrix container,   *)
(* the four primitives (todense, fromdense, matvec, matmat) with their    *)
(* reference kernels, shape rules, differentiation rules and accelerated  *)
(* lowerings.                                                             *)
(*                                                                         *)
(* Arrays are sequences (1-based positions) of 0-based coordinates and of *)
(* integer values.  A dense matrix is a record [shape, a] where a maps    *)
(* each cell <<r, c>> of the shape to its value.                          *)
(*                                                                         *)
(* The kernels are pure functions, so each primitive family has its own   *)
(* specification whose Init draws the inputs and whose actions apply the  *)
(* code:                                                                   *)
(*   SpecConv    fromdense / todense and the fromdense derivative rules   *)
(*   SpecMatvec  matvec / matmat reference kernels and reverse-mode rules *)
(*   SpecAval    shape/dtype inference of matvec and matmat               *)
(*   SpecLower   the accelerated-platform lowerings (dispatcher)          *)
(*   Spec        the container: constructors, sort, transpose             *)
(***************************************************************************)
EXTENDS Integers, Sequences, FiniteSets, TLC

VARIABLES
  inp,       \* the inputs of the call under study (a record, per specification)
  mat,       \* the COO matrix under study
  prev,      \* the matrix `mat` was obtained from by the last method call
  op,        \* the last operation applied ("init" before any)
  out,       \* the value the last operation returned, when it is not a matrix
  err,       \* the exception the last operation raised ("none" if it returned)
  same,      \* whether the last method returned its receiver (the same instance)
  warnings   \* the diagnostics emitted by the last lowering, in order

vars == <<inp, mat, prev, op, out, err, same, warnings>>

---------------------------------------------------------------------------
(* Bounds of the model. *)

\* A shape (R, C) has 1 <= R <= MaxDim, 1 <= C <= MaxDim and at most MaxCells
\* cells.
MaxCells == 6
MaxDim == 3
\* Directly constructed matrices hold at most MaxNse entries.
MaxNse == 2
\* fromdense is asked for up to MaxPad entries more than the matrix has cells.
MaxPad == 5

\* Values stored in matrices and dense arrays.
Vals == 0..2
\* Values of dense operands and cotangents.
OperandVals == 0..1

Shapes == {s \in (1..MaxDim) \X (1..MaxDim) : s[1] * s[2] <= MaxCells}

Cells(shape) == (0..(shape[1] - 1)) \X (0..(shape[2] - 1))

DenseSet(shape) == {[shape |-> shape, a |-> f] : f \in [Cells(shape) -> Vals]}

\* nse=None of coo_fromdense.
NoNse == -1

IndexDtypes == {"int32", "int64"}

---------------------------------------------------------------------------
(* Array helpers of the dense-array library. *)

RECURSIVE SumSeq(_)
SumSeq(s) == IF s = <<>> THEN 0 ELSE Head(s) + SumSeq(Tail(s))

\* (mat != 0).sum()
CountNonzero(M) == Cardinality({cell \in DOMAIN M.a : M.a[cell] # 0})

\* The cells of a shape in row-major order.
RowMajor(shape) ==
  [i \in 1..(shape[1] * shape[2]) |-> <<(i - 1) \div shape[2], (i - 1) % shape[2]>>]

\* jnp.nonzero(mat, size=size): the coordinates of the nonzero entries in
\* row-major order, cut to the first `size` and padded with index 0.
Nonzero(M, size) ==
  LET IsNz(cell) == M.a[cell] # 0
      nz == SelectSeq(RowMajor(M.shape), IsNz)
      idx == [i \in 1..size |-> IF i <= Len(nz) THEN nz[i] ELSE <<0, 0>>]
  IN  [row |-> [i \in 1..size |-> idx[i][1]],
       col |-> [i \in 1..size |-> idx[i][2]]]

\* zeros.at[row, col].add(upd): scatter-add, one update after the other;
\* an update whose index lies outside the array is dropped.
RECURSIVE ScatterAdd2(_, _, _, _, _)
ScatterAdd2(acc, row, col, upd, i) ==
  IF i > Len(upd) THEN acc
  ELSE LET cell == <<row[i], col[i]>>
       IN  ScatterAdd2(IF cell \in DOMAIN acc
                         THEN [acc EXCEPT ![cell] = @ + upd[i]]
                         ELSE acc,
                       row, col, upd, i + 1)

Zeros2(shape) == [cell \in Cells(shape) |-> 0]

Zeros1(n) == [i \in 1..n |-> 0]

\* zeros.at[idx].add(upd) on a 1-D array (index k is position k + 1).
RECURSIVE ScatterAdd1(_, _, _, _)
ScatterAdd1(acc, idx, upd, i) ==
  IF i > Len(upd) THEN acc
  ELSE ScatterAdd1(IF idx[i] + 1 \in DOMAIN acc
                     THEN [acc EXCEPT ![idx[i] + 1] = @ + upd[i]]
                     ELSE acc,
                   idx, upd, i + 1)

\* arr[idx]: gather; an index outside the array is clamped to its bounds.
Clamp(k, n) == IF k < 0 THEN 0 ELSE IF k > n - 1 THEN n - 1 ELSE k
Gather(arr, idx) == [i \in 1..Len(idx) |-> arr[Clamp(idx[i], Len(arr)) + 1]]

\* <a, b>
Dot(a, b) ==
  LET n == IF Len(a) <= Len(b) THEN Len(a) ELSE Len(b)
  IN  SumSeq([i \in 1..n |-> a[i] * b[i]])

\* shape[::-1]
Reverse(shape) == <<shape[2], shape[1]>>

\* arr.astype(index_dtype): every index of the model fits every integer index
\* dtype, so the conversion keeps the values and sets the dtype.
AsType(arr, dtype) == [val |-> arr, dtype |-> dtype]

---------------------------------------------------------------------------
(* The container. *)

COOInfo(shape, rows_sorted, cols_sorted) ==
  [shape |-> shape, rows_sorted |-> rows_sorted, cols_sorted |-> cols_sorted]

\* COO.__init__
COO(data, row, col, shape, rows_sorted, cols_sorted) ==
  [data |-> data, row |-> row, col |-> col, shape |-> shape,
   rows_sorted |-> rows_sorted, cols_sorted |-> cols_sorted]

\* COO._info
Info(m) == COOInfo(m.shape, m.rows_sorted, m.cols_sorted)

\* No matrix constructed yet.
NoMat == COO(<<>>, <<>>, <<>>, <<0, 0>>, FALSE, FALSE)

NoOut == [kind |-> "none"]

---------------------------------------------------------------------------
(* coo_todense *)

coo_todense_impl(data, row, col, spinfo) ==
  [shape |-> spinfo.shape,
   a |-> ScatterAdd2(Zeros2(spinfo.shape), row, col, data, 1)]

coo_todense(m) == coo_todense_impl(m.data, m.row, m.col, Info(m))

---------------------------------------------------------------------------
(* coo_fromdense *)

\* A fromdense kernel that keeps the gathered value of the padding entries.
coo_fromdense_impl_nomask(M, nse, index_dtype) ==
  LET nz == Nonzero(M, nse)
      gathered == [i \in 1..nse |-> M.a[<<nz.row[i], nz.col[i]>>]]
  IN  [data |-> gathered,
       row |-> AsType(nz.row, index_dtype),
       col |-> AsType(nz.col, index_dtype)]

\* A fromdense kernel whose mask of true nonzeros is one entry too long.
coo_fromdense_impl_offbyone(M, nse, index_dtype) ==
  LET nz == Nonzero(M, nse)
      gathered == [i \in 1..nse |-> M.a[<<nz.row[i], nz.col[i]>>]]
      true_nonzeros == [i \in 1..nse |-> (i - 1) <= CountNonzero(M)]
      data == [i \in 1..nse |-> IF true_nonzeros[i] THEN gathered[i] ELSE 0]
  IN  [data |-> data,
       row |-> AsType(nz.row, index_dtype),
       col |-> AsType(nz.col, index_dtype)]

coo_fromdense_impl(M, nse, index_dtype) ==
  LET nz == Nonzero(M, nse)
      gathered == [i \in 1..nse |-> M.a[<<nz.row[i], nz.col[i]>>]]
      true_nonzeros == [i \in 1..nse |-> (i - 1) < CountNonzero(M)]
      data == [i \in 1..nse |-> IF true_nonzeros[i] THEN gathered[i] ELSE 0]
  IN  [data |-> data,
       row |-> AsType(nz.row, index_dtype),
       col |-> AsType(nz.col, index_dtype)]

coo_fromdense(M, nse_arg, index_dtype) ==
  LET nse == IF nse_arg = NoNse THEN CountNonzero(M) ELSE nse_arg
      bufs == coo_fromdense_impl(M, nse, index_dtype)
  IN  COO(bufs.data, bufs.row.val, bufs.col.val, M.shape, TRUE, FALSE)

\* _coo_extract(row, col, mat): mat[row, col]
coo_extract(row, col, M) == [i \in 1..Len(row) |-> M.a[<<row[i], col[i]>>]]

\* A concrete array with its dtype, and the symbolic zero ad.Zero of one.
Arr(val, dtype) == [isZero |-> FALSE, val |-> val, dtype |-> dtype]
Zero(val, dtype) == [isZero |-> TRUE, val |-> <<>>, dtype |-> dtype]

\* _coo_fromdense_jvp: the tangent of data is extracted from Mdot at the primal
\* indices (or is the symbolic zero), the tangents of row and col are symbolic
\* zeros.
coo_fromdense_jvp(M, Mdot, nse, index_dtype) ==
  LET primals_out == coo_fromdense_impl(M, nse, index_dtype)
      data == primals_out.data
      row == primals_out.row
      col == primals_out.col
      data_dot == IF Mdot.isZero
                    THEN Zero(data, "data")
                    ELSE Arr(coo_extract(row.val, col.val, Mdot.val), "data")
  IN  [kind |-> "jvp",
       primals_out |-> primals_out,
       tangents_out |-> [data |-> data_dot,
                         row |-> Zero(row.val, row.dtype),
                         col |-> Zero(col.val, col.dtype)]]

\* _coo_fromdense_transpose(ct, M, nse, index_dtype) with ct = (data, row, col).
\* Line 348 reads row.dtype and col.dtype before line 349 asks whether they are
\* ad.Zero; whether an ad.Zero has a dtype attribute is the library's affair
\* (zeroHasDtype): without one the read raises AttributeError.
coo_fromdense_transpose(ct, Mshape, nse, index_dtype, zeroHasDtype) ==
  IF Len(ct.data) # nse THEN [err |-> "AssertionError", val |-> NoOut]
  ELSE IF (ct.row.isZero \/ ct.col.isZero) /\ ~zeroHasDtype
    THEN [err |-> "AttributeError", val |-> NoOut]
  ELSE IF ct.row.dtype # ct.col.dtype \/ ct.col.dtype # index_dtype
    THEN [err |-> "AssertionError", val |-> NoOut]
  ELSE IF ct.row.isZero \/ ct.col.isZero
    THEN [err |-> "ValueError", val |-> NoOut]
  ELSE [err |-> "none",
        val |-> coo_todense_impl(ct.data, ct.row.val, ct.col.val,
                                 COOInfo(Mshape, FALSE, FALSE))]

---------------------------------------------------------------------------
(* SpecConv: dense conversion both ways. *)

InitConv ==
  /\ \E shape \in Shapes :
       \E M \in DenseSet(shape),
          nse \in {NoNse} \cup (0..(MaxCells + MaxPad)),
          index_dtype \in IndexDtypes :
         inp = [M |-> M, nse |-> nse, index_dtype |-> index_dtype]
  /\ mat = NoMat
  /\ prev = NoMat
  /\ op = "init"
  /\ out = NoOut
  /\ err = "none"
  /\ same = FALSE
  /\ warnings = <<>>

\* COO.fromdense(M, nse=..., index_dtype=...)
ConvFromDense ==
  /\ op = "init"
  /\ mat' = coo_fromdense(inp.M, inp.nse, inp.index_dtype)
  /\ op' = "fromdense"
  /\ UNCHANGED <<inp, prev, out, err, same, warnings>>

\* mat.todense() of the matrix fromdense returned
ConvToDense ==
  /\ op = "fromdense"
  /\ out' = coo_todense(mat)
  /\ op' = "todense"
  /\ UNCHANGED <<inp, mat, prev, err, same, warnings>>

\* The forward-mode rule of fromdense, for a tangent Mdot of M or a symbolic
\* zero tangent.
ConvFromDenseJvp ==
  /\ op = "init"
  /\ inp.nse # NoNse
  /\ \E zeroTangent \in BOOLEAN :
       out' = coo_fromdense_jvp(
                inp.M,
                IF zeroTangent THEN Zero(inp.M, "data") ELSE Arr(inp.M, "data"),
                inp.nse, inp.index_dtype)
  /\ op' = "fromdense_jvp"
  /\ UNCHANGED <<inp, mat, prev, err, same, warnings>>

\* The reverse-mode rule of fromdense, for a cotangent triple shaped like the
\* primal outputs: each index cotangent is a symbolic zero or an index array.
ConvFromDenseTranspose ==
  /\ op = "fromdense"
  /\ \E zr \in BOOLEAN, zc \in BOOLEAN, zeroHasDtype \in BOOLEAN,
        ct_dtype \in IndexDtypes :
       LET ct == [data |-> mat.data,
                  row |-> IF zr THEN Zero(mat.row, ct_dtype)
                                ELSE Arr(mat.row, ct_dtype),
                  col |-> IF zc THEN Zero(mat.col, inp.index_dtype)
                                ELSE Arr(mat.col, inp.index_dtype)]
           res == coo_fromdense_transpose(ct, inp.M.shape, Len(mat.data),
                                          inp.index_dtype, zeroHasDtype)
       IN  /\ out' = [kind |-> "transpose", ct |-> ct, val |-> res.val]
           /\ err' = res.err
  /\ op' = "fromdense_transpose"
  /\ UNCHANGED <<inp, mat, prev, same, warnings>>

NextConv ==
  \/ ConvFromDense
  \/ ConvToDense
  \/ ConvFromDenseJvp
  \/ ConvFromDenseTranspose

SpecConv == InitConv /\ [][NextConv]_vars

\* The number of entries fromdense is asked for: nse, or the nonzero count
\* when nse is None.
EffNse == IF inp.nse = NoNse THEN CountNonzero(inp.M) ELSE inp.nse

Min(a, b) == IF a <= b THEN a ELSE b

\* The row-major position of the i-th coordinate of the matrix.
Lin(m, i) == m.row[i] * m.shape[2] + m.col[i]

\* C1: round trip.  For every dense M with k nonzeros and every nse >= k
\* (nse = k, nse = k + 5, nse = None), todense(fromdense(M, nse)) equals M
\* entry for entry.
C1_RoundTrip ==
  (op = "todense" /\ EffNse >= CountNonzero(inp.M)) => out = inp.M

\* C1's case: a matrix with at least two nonzeros, one of them at (0,0),
\* converted with nse = k + 5 and back.
C1_Witness ==
  /\ op = "todense"
  /\ CountNonzero(inp.M) >= 2
  /\ inp.M.a[<<0, 0>>] # 0
  /\ inp.nse = CountNonzero(inp.M) + 5
  /\ Len(mat.data) = inp.nse
  /\ out = inp.M

\* C2: fromdense(M, nse) returns data, row and col of length nse; the first
\* min(nse, k) entries are the first nonzeros of M in row-major order (each a
\* nonzero cell with its value, strictly increasing in row-major position,
\* none skipped); the entries after the k-th are (0,0) with value 0.
C2_FromDenseLayout ==
  op \in {"fromdense", "todense"} =>
    LET k == CountNonzero(inp.M)
        n == EffNse
        m == Min(n, k)
        Selected == {<<mat.row[i], mat.col[i]>> : i \in 1..m}
    IN  /\ Len(mat.data) = n /\ Len(mat.row) = n /\ Len(mat.col) = n
        /\ \A i \in 1..m :
             /\ <<mat.row[i], mat.col[i]>> \in DOMAIN inp.M.a
             /\ inp.M.a[<<mat.row[i], mat.col[i]>>] # 0
             /\ mat.data[i] = inp.M.a[<<mat.row[i], mat.col[i]>>]
        /\ \A i \in 1..(m - 1) : Lin(mat, i) < Lin(mat, i + 1)
        /\ \A cell \in DOMAIN inp.M.a :
             (/\ inp.M.a[cell] # 0
              /\ m >= 1
              /\ cell[1] * inp.M.shape[2] + cell[2] <= Lin(mat, m))
               => cell \in Selected
        /\ \A i \in (m + 1)..n :
             mat.row[i] = 0 /\ mat.col[i] = 0 /\ mat.data[i] = 0

\* C2's padding case: more entries asked for than M has nonzeros, M[0,0] # 0.
C2_WitnessPad ==
  /\ op = "fromdense"
  /\ inp.nse > CountNonzero(inp.M) + 1
  /\ CountNonzero(inp.M) >= 2
  /\ inp.M.a[<<0, 0>>] # 0
  /\ mat.data[inp.nse] = 0 /\ mat.row[inp.nse] = 0 /\ mat.col[inp.nse] = 0

\* C9: the reverse-mode rule of fromdense succeeds, returning
\* todense(ct_data, ct_row, ct_col, shape of M), exactly when the cotangents on
\* the index outputs are zero (the symbolic zero, or an array of zeros), and
\* fails when an index cotangent is not zero.
C9_IndexCotangentsZero ==
  op = "fromdense_transpose" =>
    LET IsZeroCt(c) == c.isZero \/ \A i \in 1..Len(c.val) : c.val[i] = 0
    IN  IF IsZeroCt(out.ct.row) /\ IsZeroCt(out.ct.col)
          THEN err = "none" /\ out.val.shape = inp.M.shape
          ELSE err # "none"

---------------------------------------------------------------------------
(* coo_matvec and coo_matmat: shape rules, reference kernels, reverse mode. *)

\* The abstract value (shape and dtype) of an array.
ShapedArray(shape, dtype) == [shape |-> shape, dtype |-> dtype]

Rejected == [ok |-> FALSE, err |-> "AssertionError", aval |-> ShapedArray(<<>>, "")]
Accepted(aval) == [ok |-> TRUE, err |-> "none", aval |-> aval]

\* _coo_matvec_abstract_eval: the assertions in the order of the code.
coo_matvec_abstract_eval(data, row, col, v, spinfo, transpose) ==
  IF ~(data.shape = row.shape /\ row.shape = col.shape) THEN Rejected
  ELSE IF data.dtype # v.dtype THEN Rejected
  ELSE IF row.dtype # col.dtype THEN Rejected
  ELSE IF Len(spinfo.shape) # 2 THEN Rejected
  ELSE IF Len(v.shape) # 1 THEN Rejected
  ELSE IF v.shape[1] # (IF transpose THEN spinfo.shape[1] ELSE spinfo.shape[2])
    THEN Rejected
  ELSE LET out_shape == IF transpose THEN spinfo.shape[2] ELSE spinfo.shape[1]
       IN  Accepted(ShapedArray(<<out_shape>>, data.dtype))

\* _coo_matmat_abstract_eval: the assertions in the order of the code.
coo_matmat_abstract_eval(data, row, col, B, spinfo, transpose) ==
  IF ~(data.shape = row.shape /\ row.shape = col.shape) THEN Rejected
  ELSE IF data.dtype # B.dtype THEN Rejected
  ELSE IF Len(B.shape) # 2 THEN Rejected
  ELSE IF Len(spinfo.shape) # 2 THEN Rejected
  ELSE IF B.shape[1] # (IF transpose THEN spinfo.shape[1] ELSE spinfo.shape[2])
    THEN Rejected
  ELSE LET out_shape == IF transpose THEN spinfo.shape[2] ELSE spinfo.shape[1]
       IN  Accepted(ShapedArray(<<out_shape, B.shape[2]>>, data.dtype))

\* A matvec kernel that takes the output length of the transposed product but
\* forgets to swap the index arrays.
coo_matvec_impl_noswap(data, row, col, v, spinfo, transpose) ==
  LET out_shape == IF transpose THEN spinfo.shape[2] ELSE spinfo.shape[1]
      dv == [i \in 1..Len(data) |-> data[i] * Gather(v, col)[i]]
  IN  ScatterAdd1(Zeros1(out_shape), row, dv, 1)

\* _coo_matvec_impl
coo_matvec_impl(data, row, col, v, spinfo, transpose) ==
  LET row1 == IF transpose THEN col ELSE row
      col1 == IF transpose THEN row ELSE col
      out_shape == IF transpose THEN spinfo.shape[2] ELSE spinfo.shape[1]
      dv == [i \in 1..Len(data) |-> data[i] * Gather(v, col1)[i]]
  IN  ScatterAdd1(Zeros1(out_shape), row1, dv, 1)

\* A dense 2-D operand is a sequence of rows, each a sequence of k values.
ZeroRow(k) == [j \in 1..k |-> 0]
AddRows(x, y) == [j \in 1..Len(x) |-> x[j] + y[j]]
Scale(a, x) == [j \in 1..Len(x) |-> a * x[j]]

\* zeros.at[idx].add(upd) where each update is a row.
RECURSIVE ScatterAddRows(_, _, _, _)
ScatterAddRows(acc, idx, upd, i) ==
  IF i > Len(upd) THEN acc
  ELSE ScatterAddRows(IF idx[i] + 1 \in DOMAIN acc
                        THEN [acc EXCEPT ![idx[i] + 1] = AddRows(@, upd[i])]
                        ELSE acc,
                      idx, upd, i + 1)

\* _coo_matmat_impl
coo_matmat_impl(data, row, col, B, spinfo, transpose) ==
  LET row1 == IF transpose THEN col ELSE row
      col1 == IF transpose THEN row ELSE col
      out_shape == IF transpose THEN spinfo.shape[2] ELSE spinfo.shape[1]
      k == Len(B[1])
      dB == [i \in 1..Len(data) |-> Scale(data[i], Gather(B, col1)[i])]
  IN  ScatterAddRows([r \in 1..out_shape |-> ZeroRow(k)], row1, dB, 1)

\* A reverse-mode rule that applies the matrix as it is, not its transpose.
coo_matvec_transpose_sameflag(ct, data, row, col, v, spinfo, transpose, undef) ==
  IF undef \in {"row", "col"} THEN [err |-> "AssertionError", val |-> <<>>]
  ELSE IF undef = "v"
    THEN [err |-> "none",
          val |-> <<data, row, col,
                    coo_matvec_impl(data, row, col, ct, spinfo, transpose)>>]
  ELSE [err |-> "none",
        val |-> <<[i \in 1..Len(row) |-> Gather(ct, row)[i] * Gather(v, col)[i]],
                  row, col, v>>]

\* _coo_matvec_transpose; undef names the argument that is the undefined
\* primal, the one the rule is asked to transpose with respect to.
coo_matvec_transpose(ct, data, row, col, v, spinfo, transpose, undef) ==
  IF undef \in {"row", "col"} THEN [err |-> "AssertionError", val |-> <<>>]
  ELSE IF undef = "v"
    THEN [err |-> "none",
          val |-> <<data, row, col,
                    coo_matvec_impl(data, row, col, ct, spinfo, ~transpose)>>]
  ELSE [err |-> "none",
        val |-> <<[i \in 1..Len(row) |-> Gather(ct, row)[i] * Gather(v, col)[i]],
                  row, col, v>>]

---------------------------------------------------------------------------
(* SpecMatvec: the matvec kernel and its reverse-mode rule. *)

\* The explicitly stored values of a directly built matrix.
StoredVals == Vals \ {0}

SeqsOfLen(S, n) == [1..n -> S]

\* The inputs of a matvec call and of its transposition: a matrix of at most
\* MaxNse entries with every coordinate inside its shape, the flag, an operand
\* of the length the call accepts and a cotangent of the output's length.
InitMatvec ==
  /\ \E shape \in Shapes, tr \in BOOLEAN, n \in 0..MaxNse :
       \E data \in SeqsOfLen(StoredVals, n),
          row \in SeqsOfLen(0..(shape[1] - 1), n),
          col \in SeqsOfLen(0..(shape[2] - 1), n),
          v \in SeqsOfLen(OperandVals, IF tr THEN shape[1] ELSE shape[2]),
          ct \in SeqsOfLen(OperandVals, IF tr THEN shape[2] ELSE shape[1]) :
         inp = [data |-> data, row |-> row, col |-> col,
                spinfo |-> COOInfo(shape, FALSE, FALSE), transpose |-> tr,
                v |-> v, ct |-> ct]
  /\ mat = NoMat
  /\ prev = NoMat
  /\ op = "init"
  /\ out = NoOut
  /\ err = "none"
  /\ same = FALSE
  /\ warnings = <<>>

Aval1(arr, dtype) == ShapedArray(<<Len(arr)>>, dtype)

\* coo_matvec_p.bind: the shape rule and the reference kernel on the inputs.
MatvecCall(data, row, col, v, spinfo, transpose) ==
  [kind |-> "matvec",
   aval |-> coo_matvec_abstract_eval(Aval1(data, "float32"), Aval1(row, "int32"),
                                     Aval1(col, "int32"), Aval1(v, "float32"),
                                     spinfo, transpose),
   y |-> coo_matvec_impl(data, row, col, v, spinfo, transpose)]

Matvec ==
  /\ op = "init"
  /\ out' = MatvecCall(inp.data, inp.row, inp.col, inp.v, inp.spinfo, inp.transpose)
  /\ op' = "matvec"
  /\ UNCHANGED <<inp, mat, prev, err, same, warnings>>

\* The reverse-mode rule, asked for the cotangent of `undef`.
MatvecTranspose ==
  /\ op = "init"
  /\ \E undef \in {"data", "row", "col", "v"} :
       LET res == coo_matvec_transpose(inp.ct, inp.data, inp.row, inp.col, inp.v,
                                       inp.spinfo, inp.transpose, undef)
       IN  /\ out' = [kind |-> "matvec_transpose", undef |-> undef, val |-> res.val]
           /\ err' = res.err
  /\ op' = "matvec_transpose"
  /\ UNCHANGED <<inp, mat, prev, same, warnings>>

NextMatvec == Matvec \/ MatvecTranspose

SpecMatvec == InitMatvec /\ [][NextMatvec]_vars

\* C3 as stated: matvec(data,row,col,v,spinfo,transpose=True) equals
\* matvec(data,col,row,v,spinfo,transpose=False) with the same spinfo, for
\* square and non-square shapes (same acceptance, same length, same values).
C3_SameSpinfo ==
  (op = "matvec" /\ inp.transpose) =>
    out = MatvecCall(inp.data, inp.col, inp.row, inp.v, inp.spinfo, FALSE)

\* C3 amended: matvec(data,row,col,v,spinfo,transpose=True) equals
\* matvec(data,col,row,v,spinfo',transpose=False) where spinfo' is spinfo with
\* its shape reversed (the same spinfo when the shape is square).
C3_ReversedShape ==
  (op = "matvec" /\ inp.transpose) =>
    /\ out.aval.ok
    /\ out = MatvecCall(inp.data, inp.col, inp.row, inp.v,
                        COOInfo(Reverse(inp.spinfo.shape), inp.spinfo.rows_sorted,
                                inp.spinfo.cols_sorted), FALSE)

\* C3's case: a transposed product of a non-square matrix with two entries in
\* different columns and a nonzero result.
C3_Witness ==
  /\ op = "matvec"
  /\ inp.transpose
  /\ inp.spinfo.shape[1] # inp.spinfo.shape[2]
  /\ Len(inp.data) = 2
  /\ inp.col[1] # inp.col[2]
  /\ out.aval.ok
  /\ \E j \in 1..Len(out.y) : out.y[j] > 1

\* C4: adjoint identity.  For either transpose flag, every v and cotangent ct
\* of the output's shape, <matvec(data,row,col,v,transpose), ct> equals
\* <v, matvec(data,row,col,ct,not transpose)>, and the reverse-mode rule returns
\* exactly that product as the cotangent of v.
C4_Adjoint ==
  (op = "matvec_transpose" /\ out.undef = "v") =>
    LET y == coo_matvec_impl(inp.data, inp.row, inp.col, inp.v, inp.spinfo,
                             inp.transpose)
        ct_v == out.val[4]
    IN  /\ err = "none"
        /\ Len(y) = Len(inp.ct)
        /\ Len(ct_v) = Len(inp.v)
        /\ Dot(y, inp.ct) = Dot(inp.v, ct_v)
        /\ \A j \in 1..Len(ct_v) :
             ct_v[j] = SumSeq([i \in 1..Len(inp.data) |->
                         IF (IF inp.transpose THEN inp.row[i] ELSE inp.col[i]) = j - 1
                           THEN inp.data[i] * inp.ct[(IF inp.transpose
                                                        THEN inp.col[i]
                                                        ELSE inp.row[i]) + 1]
                           ELSE 0])

\* C4's case: a non-square matrix with two entries, a nonzero inner product.
C4_Witness ==
  /\ op = "matvec_transpose"
  /\ out.undef = "v"
  /\ inp.spinfo.shape[1] # inp.spinfo.shape[2]
  /\ Len(inp.data) = 2
  /\ Dot(inp.v, out.val[4]) > 1

---------------------------------------------------------------------------
(* SpecAval: shape/dtype inference of matvec and matmat. *)

DataDtypes == {"float32", "int32"}

\* spinfo.shape values that are not of rank 2.
BadRankShapes == {<<2>>, <<1, 1, 1>>}

\* The abstract values of data, row, col and of the dense operand (1-D or 2-D),
\* the shape of spinfo and the flag.
InitAval ==
  /\ \E nd \in 1..MaxNse, nr \in 1..MaxNse, nc \in 1..MaxNse,
        col_dtype \in IndexDtypes, operand_dtype \in DataDtypes,
        lead \in 1..MaxDim, k \in 0..2,
        shape \in Shapes \cup BadRankShapes, tr \in BOOLEAN :
       inp = [data |-> ShapedArray(<<nd>>, "float32"),
              row |-> ShapedArray(<<nr>>, "int32"),
              col |-> ShapedArray(<<nc>>, col_dtype),
              operand |-> ShapedArray(IF k = 0 THEN <<lead>> ELSE <<lead, k>>,
                                      operand_dtype),
              spinfo |-> COOInfo(shape, FALSE, FALSE),
              transpose |-> tr]
  /\ mat = NoMat
  /\ prev = NoMat
  /\ op = "init"
  /\ out = NoOut
  /\ err = "none"
  /\ same = FALSE
  /\ warnings = <<>>

MatvecAbstractEval ==
  /\ op = "init"
  /\ out' = coo_matvec_abstract_eval(inp.data, inp.row, inp.col, inp.operand,
                                     inp.spinfo, inp.transpose)
  /\ err' = out'.err
  /\ op' = "matvec_abstract_eval"
  /\ UNCHANGED <<inp, mat, prev, same, warnings>>

MatmatAbstractEval ==
  /\ op = "init"
  /\ out' = coo_matmat_abstract_eval(inp.data, inp.row, inp.col, inp.operand,
                                     inp.spinfo, inp.transpose)
  /\ err' = out'.err
  /\ op' = "matmat_abstract_eval"
  /\ UNCHANGED <<inp, mat, prev, same, warnings>>

NextAval == MatvecAbstractEval \/ MatmatAbstractEval

SpecAval == InitAval /\ [][NextAval]_vars

\* C8: shape/dtype inference of matvec and of matmat fails whenever (a) row and
\* col have different index dtypes, or (b) data's dtype differs from the dense
\* operand's, or (c) the operand's leading dimension differs from shape[0] if
\* transpose else shape[1]; when none holds and ranks and lengths are valid it
\* returns (shape[1] if transpose else shape[0]), with trailing k for matmat,
\* and data's dtype.
C8_Mismatch ==
  op \in {"matvec_abstract_eval", "matmat_abstract_eval"} =>
    LET shape == inp.spinfo.shape
        rank == IF op = "matvec_abstract_eval" THEN 1 ELSE 2
        ranksValid == Len(shape) = 2 /\ Len(inp.operand.shape) = rank
        lengthsValid == inp.data.shape = inp.row.shape
                          /\ inp.row.shape = inp.col.shape
        a == inp.row.dtype # inp.col.dtype
        b == inp.data.dtype # inp.operand.dtype
        c == /\ Len(shape) = 2
             /\ inp.operand.shape[1] # (IF inp.transpose THEN shape[1] ELSE shape[2])
        n == IF inp.transpose THEN shape[2] ELSE shape[1]
        expected == ShapedArray(IF rank = 1 THEN <<n>>
                                            ELSE <<n, inp.operand.shape[2]>>,
                                inp.data.dtype)
    IN  /\ (a \/ b \/ c) => ~out.ok
        /\ (~a /\ ~b /\ ~c /\ ranksValid /\ lengthsValid) =>
             (out.ok /\ out.aval = expected)

---------------------------------------------------------------------------
(* The accelerated-platform lowerings. *)

Dtypes == {"int32", "float16", "float32", "complex64"}

\* np.issubdtype(dtype, np.floating) or np.issubdtype(dtype, np.complexfloating)
IsFloatOrComplex(dtype) ==
  dtype \in {"float16", "float32", "float64", "complex64", "complex128"}

\* dtype in [np.float32, np.float64, np.complex64, np.complex128]
InMatvecDtypes(dtype) == dtype \in {"float32", "float64", "complex64", "complex128"}

\* warnings.warn(message, CuSparseEfficiencyWarning): the message says that the
\* lowering is "not available for dtype=..." (reason "dtype") or that it
\* "requires matrices with sorted rows or sorted cols" (reason "unsorted").
Warn(prim, reason) ==
  [category |-> "CuSparseEfficiencyWarning", primitive |-> prim, reason |-> reason]

\* The (row, col) sequence is lexicographically non-decreasing.
LexSorted(row, col) ==
  \A i \in 1..(Len(row) - 1) :
    row[i] < row[i + 1] \/ (row[i] = row[i + 1] /\ col[i] <= col[i + 1])

Value(x) == [kind |-> "value", val |-> x]
Undefined == [kind |-> "undefined", val |-> <<>>]

\* The accelerated kernels: the reference semantics on the arguments they are
\* handed, provided the handed indices are sorted by (row, col).
gpu_coo_todense(data, row, col, shape) ==
  IF LexSorted(row, col)
    THEN Value(coo_todense_impl(data, row, col, COOInfo(shape, TRUE, FALSE)))
    ELSE Undefined

gpu_coo_matvec(data, row, col, v, shape, transpose) ==
  IF LexSorted(row, col)
    THEN Value(coo_matvec_impl(data, row, col, v, COOInfo(shape, TRUE, FALSE),
                               transpose))
    ELSE Undefined

gpu_coo_matmat(data, row, col, B, shape, transpose) ==
  IF LexSorted(row, col)
    THEN Value(coo_matmat_impl(data, row, col, B, COOInfo(shape, TRUE, FALSE),
                               transpose))
    ELSE Undefined

\* mhlo.TransposeOp(result, [1, 0])
TransposeOp(res) ==
  IF res.kind # "value" THEN res
  ELSE Value([shape |-> Reverse(res.val.shape),
              a |-> [cell \in Cells(Reverse(res.val.shape)) |->
                       res.val.a[<<cell[2], cell[1]>>]]])

\* What a lowering did: the kernel it chose, the arguments it handed to it, the
\* result and the diagnostics it emitted.
Lowered(prim, path, args, result, warns) ==
  [kind |-> "lowering", primitive |-> prim, path |-> path, args |-> args,
   result |-> result, warns |-> warns]

TodenseArgs(data, row, col, shape) ==
  [data |-> data, row |-> row, col |-> col, shape |-> shape]

ProductArgs(data, row, col, x, shape, transpose) ==
  [data |-> data, row |-> row, col |-> col, x |-> x, shape |-> shape,
   transpose |-> transpose]

\* _coo_todense_gpu_lowering
coo_todense_gpu_lowering(dtype, data, row, col, spinfo) ==
  IF ~IsFloatOrComplex(dtype)
    THEN Lowered("coo_todense", "default",
                 TodenseArgs(data, row, col, spinfo.shape),
                 Value(coo_todense_impl(data, row, col, spinfo)),
                 <<Warn("coo_todense", "dtype")>>)
  ELSE IF spinfo.rows_sorted
    THEN Lowered("coo_todense", "gpu",
                 TodenseArgs(data, row, col, spinfo.shape),
                 gpu_coo_todense(data, row, col, spinfo.shape),
                 <<>>)
  ELSE IF spinfo.cols_sorted
    THEN Lowered("coo_todense", "gpu",
                 TodenseArgs(data, col, row, Reverse(spinfo.shape)),
                 TransposeOp(gpu_coo_todense(data, col, row, Reverse(spinfo.shape))),
                 <<>>)
  ELSE Lowered("coo_todense", "default",
               TodenseArgs(data, row, col, spinfo.shape),
               Value(coo_todense_impl(data, row, col, spinfo)),
               <<Warn("coo_todense", "unsorted")>>)

\* A matvec lowering that swaps the index arrays and the shape but keeps the
\* transpose flag.
coo_matvec_gpu_lowering_noflip(dtype, data, row, col, v, spinfo, transpose) ==
  IF ~InMatvecDtypes(dtype)
    THEN Lowered("coo_matvec", "default",
                 ProductArgs(data, row, col, v, spinfo.shape, transpose),
                 Value(coo_matvec_impl(data, row, col, v, spinfo, transpose)),
                 <<Warn("coo_matvec", "dtype")>>)
  ELSE IF spinfo.rows_sorted
    THEN Lowered("coo_matvec", "gpu",
                 ProductArgs(data, row, col, v, spinfo.shape, transpose),
                 gpu_coo_matvec(data, row, col, v, spinfo.shape, transpose),
                 <<>>)
  ELSE IF spinfo.cols_sorted
    THEN Lowered("coo_matvec", "gpu",
                 ProductArgs(data, col, row, v, Reverse(spinfo.shape), transpose),
                 gpu_coo_matvec(data, col, row, v, Reverse(spinfo.shape), transpose),
                 <<>>)
  ELSE Lowered("coo_matvec", "default",
               ProductArgs(data, row, col, v, spinfo.shape, transpose),
               Value(coo_matvec_impl(data, row, col, v, spinfo, transpose)),
               <<Warn("coo_matvec", "unsorted")>>)

\* _coo_matvec_gpu_lowering
coo_matvec_gpu_lowering(dtype, data, row, col, v, spinfo, transpose) ==
  IF ~InMatvecDtypes(dtype)
    THEN Lowered("coo_matvec", "default",
                 ProductArgs(data, row, col, v, spinfo.shape, transpose),
                 Value(coo_matvec_impl(data, row, col, v, spinfo, transpose)),
                 <<Warn("coo_matvec", "dtype")>>)
  ELSE IF spinfo.rows_sorted
    THEN Lowered("coo_matvec", "gpu",
                 ProductArgs(data, row, col, v, spinfo.shape, transpose),
                 gpu_coo_matvec(data, row, col, v, spinfo.shape, transpose),
                 <<>>)
  ELSE IF spinfo.cols_sorted
    THEN Lowered("coo_matvec", "gpu",
                 ProductArgs(data, col, row, v, Reverse(spinfo.shape), ~transpose),
                 gpu_coo_matvec(data, col, row, v, Reverse(spinfo.shape), ~transpose),
                 <<>>)
  ELSE Lowered("coo_matvec", "default",
               ProductArgs(data, row, col, v, spinfo.shape, transpose),
               Value(coo_matvec_impl(data, row, col, v, spinfo, transpose)),
               <<Warn("coo_matvec", "unsorted")>>)

\* A matmat lowering that tests the layout before the dtype.
coo_matmat_gpu_lowering_layoutfirst(dtype, data, row, col, B, spinfo, transpose) ==
  IF ~spinfo.rows_sorted /\ ~spinfo.cols_sorted
    THEN Lowered("coo_matmat", "default",
                 ProductArgs(data, row, col, B, spinfo.shape, transpose),
                 Value(coo_matmat_impl(data, row, col, B, spinfo, transpose)),
                 <<Warn("coo_matmat", "unsorted")>>)
  ELSE IF ~InMatvecDtypes(dtype)
    THEN Lowered("coo_matmat", "default",
                 ProductArgs(data, row, col, B, spinfo.shape, transpose),
                 Value(coo_matmat_impl(data, row, col, B, spinfo, transpose)),
                 <<Warn("coo_matmat", "dtype")>>)
  ELSE IF spinfo.rows_sorted
    THEN Lowered("coo_matmat", "gpu",
                 ProductArgs(data, row, col, B, spinfo.shape, transpose),
                 gpu_coo_matmat(data, row, col, B, spinfo.shape, transpose),
                 <<>>)
  ELSE Lowered("coo_matmat", "gpu",
               ProductArgs(data, col, row, B, Reverse(spinfo.shape), ~transpose),
               gpu_coo_matmat(data, col, row, B, Reverse(spinfo.shape), ~transpose),
               <<>>)

\* _coo_matmat_gpu_lowering
coo_matmat_gpu_lowering(dtype, data, row, col, B, spinfo, transpose) ==
  IF ~InMatvecDtypes(dtype)
    THEN Lowered("coo_matmat", "default",
                 ProductArgs(data, row, col, B, spinfo.shape, transpose),
                 Value(coo_matmat_impl(data, row, col, B, spinfo, transpose)),
                 <<Warn("coo_matmat", "dtype")>>)
  ELSE IF spinfo.rows_sorted
    THEN Lowered("coo_matmat", "gpu",
                 ProductArgs(data, row, col, B, spinfo.shape, transpose),
                 gpu_coo_matmat(data, row, col, B, spinfo.shape, transpose),
                 <<>>)
  ELSE IF spinfo.cols_sorted
    THEN Lowered("coo_matmat", "gpu",
                 ProductArgs(data, col, row, B, Reverse(spinfo.shape), ~transpose),
                 gpu_coo_matmat(data, col, row, B, Reverse(spinfo.shape), ~transpose),
                 <<>>)
  ELSE Lowered("coo_matmat", "default",
               ProductArgs(data, row, col, B, spinfo.shape, transpose),
               Value(coo_matmat_impl(data, row, col, B, spinfo, transpose)),
               <<Warn("coo_matmat", "unsorted")>>)

---------------------------------------------------------------------------
(* SpecLower: one primitive call lowered for an accelerated platform. *)

\* Dense operands of leading dimension n: a vector, and a 2-column array.
Iota(n) == [i \in 1..n |-> i]
Ones(n) == [i \in 1..n |-> 1]
LowerVectors(n) == {Iota(n), Ones(n)}
Columns2(x, y) == [i \in 1..Len(x) |-> <<x[i], y[i]>>]

\* A matrix with any combination of layout flags (truthful or not), a data
\* dtype, the flag and the operands.
InitLower ==
  /\ \E shape \in Shapes, tr \in BOOLEAN, n \in 0..MaxNse,
        rows_sorted \in BOOLEAN, cols_sorted \in BOOLEAN, dtype \in Dtypes :
       \E data \in SeqsOfLen(StoredVals, n),
          row \in SeqsOfLen(0..(shape[1] - 1), n),
          col \in SeqsOfLen(0..(shape[2] - 1), n),
          v \in LowerVectors(IF tr THEN shape[1] ELSE shape[2]) :
         inp = [data |-> data, row |-> row, col |-> col, dtype |-> dtype,
                spinfo |-> COOInfo(shape, rows_sorted, cols_sorted),
                transpose |-> tr, v |-> v,
                B |-> Columns2(v, Iota(Len(v)))]
  /\ mat = NoMat
  /\ prev = NoMat
  /\ op = "init"
  /\ out = NoOut
  /\ err = "none"
  /\ same = FALSE
  /\ warnings = <<>>

TodenseGpuLowering ==
  /\ op = "init"
  /\ out' = coo_todense_gpu_lowering(inp.dtype, inp.data, inp.row, inp.col,
                                     inp.spinfo)
  /\ warnings' = out'.warns
  /\ op' = "lowering"
  /\ UNCHANGED <<inp, mat, prev, err, same>>

MatvecGpuLowering ==
  /\ op = "init"
  /\ out' = coo_matvec_gpu_lowering(inp.dtype, inp.data, inp.row, inp.col, inp.v,
                                    inp.spinfo, inp.transpose)
  /\ warnings' = out'.warns
  /\ op' = "lowering"
  /\ UNCHANGED <<inp, mat, prev, err, same>>

MatmatGpuLowering ==
  /\ op = "init"
  /\ out' = coo_matmat_gpu_lowering(inp.dtype, inp.data, inp.row, inp.col, inp.B,
                                    inp.spinfo, inp.transpose)
  /\ warnings' = out'.warns
  /\ op' = "lowering"
  /\ UNCHANGED <<inp, mat, prev, err, same>>

NextLower == TodenseGpuLowering \/ MatvecGpuLowering \/ MatmatGpuLowering

SpecLower == InitLower /\ [][NextLower]_vars

\* The layout flags of the call say the truth about its index arrays.
Truthful ==
  /\ inp.spinfo.rows_sorted => LexSorted(inp.row, inp.col)
  /\ inp.spinfo.cols_sorted => LexSorted(inp.col, inp.row)

\* The reference kernel of the lowered primitive on the original arguments.
Reference ==
  CASE out.primitive = "coo_todense" ->
         coo_todense_impl(inp.data, inp.row, inp.col, inp.spinfo)
    [] out.primitive = "coo_matvec" ->
         coo_matvec_impl(inp.data, inp.row, inp.col, inp.v, inp.spinfo,
                         inp.transpose)
    [] out.primitive = "coo_matmat" ->
         coo_matmat_impl(inp.data, inp.row, inp.col, inp.B, inp.spinfo,
                         inp.transpose)

\* C6: for todense, matvec and matmat and every combination of dtype and
\* truthful layout flags, the accelerated-platform lowering yields the value of
\* the reference kernel on the same arguments (the accelerated kernel computing
\* the reference semantics on what it is handed); in the cols_sorted-only
\* branch it hands over row/col swapped, the shape reversed and the transpose
\* flag flipped (todense: the result transposed).
C6_LoweringPreserves ==
  (op = "lowering" /\ Truthful) =>
    /\ out.result.kind = "value"
    /\ out.result.val = Reference
    /\ (out.path = "gpu" /\ ~inp.spinfo.rows_sorted) =>
         /\ out.args.row = inp.col
         /\ out.args.col = inp.row
         /\ out.args.shape = Reverse(inp.spinfo.shape)
         /\ out.primitive # "coo_todense" => out.args.transpose = ~inp.transpose

\* C6's case: the cols_sorted-only branch on a non-square matrix whose two
\* entries are sorted by column but not by row, with a nonzero result.
C6_Witness ==
  /\ op = "lowering"
  /\ out.primitive = "coo_matvec"
  /\ out.path = "gpu"
  /\ ~inp.spinfo.rows_sorted /\ inp.spinfo.cols_sorted
  /\ Truthful
  /\ ~LexSorted(inp.row, inp.col)
  /\ inp.spinfo.shape[1] # inp.spinfo.shape[2]
  /\ \E j \in 1..Len(out.result.val) : out.result.val[j] > 0

\* The data dtypes each accelerated kernel supports.
Supported(prim, dtype) ==
  IF prim = "coo_todense"
    THEN dtype \in {"float16", "float32", "complex64"}
    ELSE dtype \in {"float32", "complex64"}

\* C7: on an accelerated platform the accelerated kernel is invoked iff the
\* dtype is supported and rows_sorted or cols_sorted is true; otherwise the
\* reference kernel runs on the original arguments, with exactly one
\* performance diagnostic naming the reason (unsupported dtype first, else
\* unsorted layout), the operation still returns a value; no diagnostic is
\* emitted when the accelerated kernel is used.
C7_Dispatch ==
  op = "lowering" =>
    LET supported == Supported(out.primitive, inp.dtype)
        sorted == inp.spinfo.rows_sorted \/ inp.spinfo.cols_sorted
    IN  /\ out.path = "gpu" <=> (supported /\ sorted)
        /\ out.path = "gpu" => warnings = <<>>
        /\ out.path # "gpu" =>
             /\ out.path = "default"
             /\ Len(warnings) = 1
             /\ warnings[1].category = "CuSparseEfficiencyWarning"
             /\ warnings[1].primitive = out.primitive
             /\ warnings[1].reason = (IF ~supported THEN "dtype" ELSE "unsorted")
             /\ out.args.data = inp.data
             /\ out.args.row = inp.row
             /\ out.args.col = inp.col
             /\ out.args.shape = inp.spinfo.shape
             /\ out.primitive # "coo_todense" => out.args.transpose = inp.transpose
             /\ out.result.kind = "value"
             /\ out.result.val = Reference
             /\ err = "none"

\* C7's case: a dtype the product kernels do not support and an unsorted layout
\* at once; the diagnostic names the dtype.
C7_Witness ==
  /\ op = "lowering"
  /\ out.primitive = "coo_matmat"
  /\ inp.dtype = "float16"
  /\ ~inp.spinfo.rows_sorted /\ ~inp.spinfo.cols_sorted
  /\ Len(inp.data) = 2
  /\ out.path = "default"
  /\ warnings = <<Warn("coo_matmat", "dtype")>>

---------------------------------------------------------------------------
(* The container's methods. *)

\* (row, col) of one entry sorts before (or with) that of another.
KeyLeq(a, b) == a.row < b.row \/ (a.row = b.row /\ a.col <= b.col)

\* Stable insertion of an entry into a sequence sorted by (row, col): after
\* every entry whose key is not larger.
RECURSIVE InsertSorted(_, _)
InsertSorted(sorted, e) ==
  IF sorted = <<>> THEN <<e>>
  ELSE IF KeyLeq(Head(sorted), e)
    THEN <<Head(sorted)>> \o InsertSorted(Tail(sorted), e)
    ELSE <<e>> \o sorted

\* lax.sort((row, col, data), num_keys=2): a stable sort of the entries by
\* (row, col), the data carried along.
RECURSIVE LaxSort2(_, _)
LaxSort2(entries, i) ==
  IF i = 0 THEN <<>> ELSE InsertSorted(LaxSort2(entries, i - 1), entries[i])

Entries(m) ==
  [i \in 1..Len(m.data) |-> [row |-> m.row[i], col |-> m.col[i], data |-> m.data[i]]]

\* COO._sort_indices: [m, same] where same says the receiver was returned.
sort_indices(m) ==
  IF m.rows_sorted THEN [m |-> m, same |-> TRUE]
  ELSE LET e == LaxSort2(Entries(m), Len(m.data))
       IN  [m |-> COO([i \in 1..Len(e) |-> e[i].data],
                      [i \in 1..Len(e) |-> e[i].row],
                      [i \in 1..Len(e) |-> e[i].col],
                      m.shape, TRUE, FALSE),
            same |-> FALSE]

\* COO._empty
coo_empty(shape) ==
  IF Len(shape) # 2 THEN [err |-> "ValueError", m |-> NoMat]
  ELSE [err |-> "none", m |-> COO(<<>>, <<>>, <<>>, shape, TRUE, TRUE)]

\* A diagonal constructor that offsets the columns whatever the sign of k.
coo_eye_coloffset(N, M, k) ==
  LET diag_size == IF k > 0 THEN Min(N, M - k) ELSE Min(N + k, M)
  IN  IF diag_size <= 0 THEN coo_empty(<<N, M>>)
      ELSE LET idx == [i \in 1..diag_size |-> i - 1]
               row == idx
               col == [i \in 1..diag_size |-> idx[i] + k]
           IN  [err |-> "none",
                m |-> COO([i \in 1..diag_size |-> 1], row, col, <<N, M>>,
                          TRUE, TRUE)]

\* COO._eye
coo_eye(N, M, k) ==
  LET diag_size == IF k > 0 THEN Min(N, M - k) ELSE Min(N + k, M)
  IN  IF diag_size <= 0 THEN coo_empty(<<N, M>>)
      ELSE LET idx == [i \in 1..diag_size |-> i - 1]
               row == [i \in 1..diag_size |-> idx[i] - (IF k >= 0 THEN 0 ELSE k)]
               col == [i \in 1..diag_size |-> idx[i] + (IF k <= 0 THEN 0 ELSE k)]
           IN  [err |-> "none",
                m |-> COO([i \in 1..diag_size |-> 1], row, col, <<N, M>>,
                          TRUE, TRUE)]

\* A transpose that leaves the two sorted flags where they were.
coo_transpose_keepflags(m, axes) ==
  IF axes # "None" THEN [err |-> "NotImplementedError", m |-> m]
  ELSE [err |-> "none",
        m |-> COO(m.data, m.col, m.row, Reverse(m.shape),
                  m.rows_sorted, m.cols_sorted)]

\* COO.transpose(axes)
coo_transpose(m, axes) ==
  IF axes # "None" THEN [err |-> "NotImplementedError", m |-> m]
  ELSE [err |-> "none",
        m |-> COO(m.data, m.col, m.row, Reverse(m.shape),
                  m.cols_sorted, m.rows_sorted)]

---------------------------------------------------------------------------
(* Spec: one matrix, from its construction through sort and transpose.  A   *)
(* constructor does not read the matrix held before, so every matrix the    *)
(* program can build is the result of one constructor and then methods.     *)

\* The offsets of the diagonal constructor.
MaxOffset == 5

Init ==
  /\ inp = [ctor |-> "none"]
  /\ mat = NoMat
  /\ prev = NoMat
  /\ op = "init"
  /\ out = NoOut
  /\ err = "none"
  /\ same = FALSE
  /\ warnings = <<>>

HasMat == mat # NoMat

\* COO((data, row, col), shape=shape): the layout flags default to False.
New ==
  /\ op = "init"
  /\ \E shape \in Shapes, n \in 0..MaxNse :
       \E data \in SeqsOfLen(StoredVals, n),
          row \in SeqsOfLen(0..(shape[1] - 1), n),
          col \in SeqsOfLen(0..(shape[2] - 1), n) :
         /\ mat' = COO(data, row, col, shape, FALSE, FALSE)
         /\ inp' = [ctor |-> "COO"]
  /\ op' = "new"
  /\ UNCHANGED <<prev, out, err, same, warnings>>

\* COO.fromdense(M, nse=nse)
FromDense ==
  /\ op = "init"
  /\ \E shape \in Shapes :
       \E M \in DenseSet(shape), nse \in {NoNse} \cup (0..MaxNse) :
         /\ mat' = coo_fromdense(M, nse, "int32")
         /\ inp' = [ctor |-> "fromdense", M |-> M, nse |-> nse]
  /\ op' = "fromdense"
  /\ UNCHANGED <<prev, out, err, same, warnings>>

\* COO._empty(shape)
Empty ==
  /\ op = "init"
  /\ \E shape \in Shapes \cup BadRankShapes :
       LET res == coo_empty(shape)
       IN  /\ mat' = res.m
           /\ err' = res.err
           /\ inp' = [ctor |-> "empty", shape |-> shape]
  /\ op' = "empty"
  /\ UNCHANGED <<prev, out, same, warnings>>

\* COO._eye(N, M, k)
Eye ==
  /\ op = "init"
  /\ \E N \in 1..MaxDim, M \in 1..MaxDim, k \in (-MaxOffset)..MaxOffset :
       LET res == coo_eye(N, M, k)
       IN  /\ mat' = res.m
           /\ err' = res.err
           /\ inp' = [ctor |-> "eye", N |-> N, M |-> M, k |-> k]
  /\ op' = "eye"
  /\ UNCHANGED <<prev, out, same, warnings>>

\* mat._sort_indices()
Sort ==
  /\ HasMat
  /\ LET res == sort_indices(mat)
     IN  /\ mat' = res.m
         /\ same' = res.same
  /\ prev' = mat
  /\ op' = "sort"
  /\ out' = NoOut
  /\ err' = "none"
  /\ UNCHANGED <<inp, warnings>>

\* mat.transpose(axes)
Transpose ==
  /\ HasMat
  /\ \E axes \in {"None", "(1, 0)"} :
       LET res == coo_transpose(mat, axes)
       IN  /\ mat' = res.m
           /\ err' = res.err
           /\ out' = [kind |-> "transpose", axes |-> axes]
  /\ prev' = mat
  /\ same' = FALSE
  /\ op' = "transpose"
  /\ UNCHANGED <<inp, warnings>>

\* mat.todense()
ToDense ==
  /\ HasMat
  /\ out' = coo_todense(mat)
  /\ op' = "todense"
  /\ err' = "none"
  /\ UNCHANGED <<inp, mat, prev, same, warnings>>

Next == New \/ FromDense \/ Empty \/ Eye \/ Sort \/ Transpose \/ ToDense

Spec == Init /\ [][Next]_vars

\* The entries of a matrix as a bag of (row, col, data) triples.
EntryCount(m, e) == Cardinality({i \in 1..Len(m.data) : Entries(m)[i] = e})

\* C5: for every matrix m, sort(m) has rows_sorted = true, its (row, col)
\* sequence is lexicographically non-decreasing, its data is reordered in
\* lockstep with the indices, todense(sort(m)) = todense(m), and when
\* m.rows_sorted is already true sort returns the same instance.
C5_SortInvariants ==
  op = "sort" =>
    /\ mat.rows_sorted
    /\ LexSorted(mat.row, mat.col)
    /\ mat.shape = prev.shape
    /\ Len(mat.data) = Len(prev.data)
    /\ \A i \in 1..Len(prev.data) :
         EntryCount(mat, Entries(prev)[i]) = EntryCount(prev, Entries(prev)[i])
    /\ coo_todense(mat) = coo_todense(prev)
    /\ prev.rows_sorted => (same /\ mat = prev)

\* C10: transpose(m) is a new matrix with the same data, row and col exchanged,
\* the shape reversed and the two sorted flags exchanged, so that
\* todense(transpose(m))[c][r] = todense(m)[r][c], and transposing it again
\* gives the fields of m; a non-null axes argument is rejected with
\* NotImplementedError and m is unchanged.
C10_Transpose ==
  op = "transpose" =>
    IF out.axes = "None"
      THEN /\ err = "none"
           /\ ~same
           /\ mat.data = prev.data
           /\ mat.row = prev.col
           /\ mat.col = prev.row
           /\ mat.shape = <<prev.shape[2], prev.shape[1]>>
           /\ mat.rows_sorted = prev.cols_sorted
           /\ mat.cols_sorted = prev.rows_sorted
           /\ \A r \in 0..(prev.shape[1] - 1), c \in 0..(prev.shape[2] - 1) :
                coo_todense(mat).a[<<c, r>>] = coo_todense(prev).a[<<r, c>>]
           /\ coo_transpose(mat, "None").m = prev
      ELSE /\ err = "NotImplementedError"
           /\ mat = prev

\* C10's case: a non-square matrix with two entries, sorted by rows only.
C10_Witness ==
  /\ op = "transpose"
  /\ out.axes = "None"
  /\ prev.shape[1] # prev.shape[2]
  /\ Len(prev.data) = 2
  /\ prev.row[1] # prev.row[2]
  /\ prev.col[1] # prev.col[2]
  /\ prev.rows_sorted /\ ~prev.cols_sorted
  /\ mat.cols_sorted /\ ~mat.rows_sorted

\* The number of entries C11 gives the diagonal of offset k in shape (N, M).
DiagCount(N, M, k) ==
  LET a == IF k > 0 THEN N ELSE N + k
      b == IF k > 0 THEN M - k ELSE M
      c == IF a <= b THEN a ELSE b
  IN  IF c <= 0 THEN 0 ELSE c

\* C11: the diagonal constructor for shape (N, M) and offset k builds a matrix
\* of that shape with exactly min(N, M-k) entries when k > 0 and min(N+k, M)
\* when k <= 0, or no entry when that count is <= 0; every entry has value 1,
\* the i-th entry sits at (i, i+k) for k >= 0 and at (i-k, i) for k < 0, and
\* every coordinate lies inside the shape.
C11_Diagonal ==
  op = "eye" =>
    LET n == DiagCount(inp.N, inp.M, inp.k)
    IN  /\ err = "none"
        /\ mat.shape = <<inp.N, inp.M>>
        /\ Len(mat.data) = n /\ Len(mat.row) = n /\ Len(mat.col) = n
        /\ \A i \in 0..(n - 1) :
             /\ mat.data[i + 1] = 1
             /\ mat.row[i + 1] = (IF inp.k >= 0 THEN i ELSE i - inp.k)
             /\ mat.col[i + 1] = (IF inp.k >= 0 THEN i + inp.k ELSE i)
             /\ 0 <= mat.row[i + 1] /\ mat.row[i + 1] < inp.N
             /\ 0 <= mat.col[i + 1] /\ mat.col[i + 1] < inp.M

\* C11's case: shape (3, 3) with offset 1, two entries at (0, 1) and (1, 2).
C11_Witness ==
  /\ op = "eye"
  /\ inp.N = 3 /\ inp.M = 3 /\ inp.k = 1
  /\ mat.row = <<0, 1>>
  /\ mat.col = <<1, 2>>
  /\ mat.data = <<1, 1>>

---------------------------------------------------------------------------
(* SpecRules: the reverse-mode rules of matvec and matmat. *)

\* _coo_matmat_transpose; undef names the undefined primal.
coo_matmat_transpose(ct, data, row, col, B, spinfo, transpose, undef) ==
  IF undef \in {"row", "col"} THEN [err |-> "AssertionError", val |-> <<>>]
  ELSE IF undef = "B"
    THEN [err |-> "none",
          val |-> <<data, row, col,
                    coo_matmat_impl(data, row, col, ct, spinfo, ~transpose)>>]
  ELSE [err |-> "none",
        val |-> <<[i \in 1..Len(row) |->
                     SumSeq([k \in 1..Len(B[1]) |->
                               Gather(ct, row)[i][k] * Gather(B, col)[i][k]])],
                  row, col, B>>]

\* The reverse-mode rule of matmat, asked for the cotangent of `undef`.  The
\* operand B has inp.v as its first column and the cotangent has inp.ct.
MatmatTranspose ==
  /\ op = "init"
  /\ \E undef \in {"data", "row", "col", "B"},
        w \in LowerVectors(Len(inp.v)), u \in LowerVectors(Len(inp.ct)) :
       LET B == Columns2(inp.v, w)
           ct == Columns2(inp.ct, u)
           res == coo_matmat_transpose(ct, inp.data, inp.row, inp.col, B,
                                       inp.spinfo, inp.transpose, undef)
       IN  /\ out' = [kind |-> "matmat_transpose", undef |-> undef, B |-> B,
                      ct |-> ct, val |-> res.val]
           /\ err' = res.err
  /\ op' = "matmat_transpose"
  /\ UNCHANGED <<inp, mat, prev, same, warnings>>

NextRules == MatvecTranspose \/ MatmatTranspose

SpecRules == InitMatvec /\ [][NextRules]_vars

\* <X, Y> of two dense 2-D arrays with the same shape.
Dot2(X, Y) == SumSeq([r \in 1..Len(X) |-> Dot(X[r], Y[r])])

\* Every index is a position of the array it is applied to.
InBounds(idx, arr) == \A i \in 1..Len(idx) : 0 <= idx[i] /\ idx[i] < Len(arr)

\* C12: the data cotangent g that the reverse-mode rule of matvec (matmat)
\* returns is the transpose of the forward rule for both values of the flag:
\* with d the data tangent, sum_i d[i]*g[i] = <matvec(d,row,col,v,transpose), ct>
\* (for matmat, <matmat(d,row,col,B,transpose), ct>), and every index the rule
\* applies to ct and v (B) stays within their lengths.
C12_DataAdjoint ==
  /\ (op = "matvec_transpose" /\ out.undef = "data") =>
       /\ err = "none"
       /\ Len(out.val[1]) = Len(inp.data)
       /\ Dot(inp.data, out.val[1])
            = Dot(coo_matvec_impl(inp.data, inp.row, inp.col, inp.v, inp.spinfo,
                                  inp.transpose), inp.ct)
       /\ InBounds(inp.row, inp.ct)
       /\ InBounds(inp.col, inp.v)
  /\ (op = "matmat_transpose" /\ out.undef = "data") =>
       /\ err = "none"
       /\ Len(out.val[1]) = Len(inp.data)
       /\ Dot(inp.data, out.val[1])
            = Dot2(coo_matmat_impl(inp.data, inp.row, inp.col, out.B, inp.spinfo,
                                   inp.transpose), out.ct)
       /\ InBounds(inp.row, out.ct)
       /\ InBounds(inp.col, out.B)

---------------------------------------------------------------------------
\* C13: layout flags are truthful in every matrix reached by fromdense (any
\* nse, also larger than the number of nonzeros), empty, the diagonal
\* constructor, sort and transpose: rows_sorted implies that the (row, col)
\* sequence is lexicographically non-decreasing and cols_sorted that the
\* (col, row) sequence is.
C13_FlagsTruthful ==
  HasMat =>
    /\ mat.rows_sorted => LexSorted(mat.row, mat.col)
    /\ mat.cols_sorted => LexSorted(mat.col, mat.row)

=============================================================================
